---- MODULE Spec2Model ----
(***************************************************************************)
(* A model of include/swift/Basic/Demangler.h: the bump-pointer arena      *)
(* NodeFactory and the Demangler session built on it.                      *)
(*                                                                         *)
(* Addresses are natural numbers, nullptr is 0.  A slab is a record        *)
(* [base, size]: base is the address malloc returned, size the number of   *)
(* data bytes that follow the Slab header.  The slab chain CurrentSlab is  *)
(* a sequence, head first (the list linked through Slab::Previous).        *)
(***************************************************************************)
EXTENDS Integers, Sequences, FiniteSets, TLC

VARIABLES
  CurPtr,        \* NodeFactory::CurPtr
  End,           \* NodeFactory::End
  CurrentSlab,   \* NodeFactory::CurrentSlab, the chain head first
  SlabSize,      \* NodeFactory::SlabSize
  mem,           \* contents of arena memory: address of an element -> value
  arrays,        \* the arrays the client of the arena holds: Objects, Capacity, T
  regions,       \* every region Allocate returned since the last clear()
  nops,          \* number of arena calls made by the client
  last,          \* the last call or step: its name, arguments and result
  Text,          \* Demangler::Text, a sequence of characters
  Pos,           \* Demangler::Pos, an offset into Text counted from 0
  NodeStack,     \* Demangler::NodeStack, entries [Node, Pos]
  Substitutions, \* Demangler::Substitutions
  Words,         \* Demangler::Words, slots 0 .. MaxNumWords - 1
  NumWords,      \* Demangler::NumWords
  nodes,         \* the Nodes in arena memory: address -> [Kind, Text, Children]
  pc,            \* where the session is: idle, parse, ident, done
  id,            \* the locals of the demangleIdentifier call in progress
  result,        \* what the demangle call returned
  built,         \* the substitutable nodes of the call, in the order they were completed
  recorded       \* the literal runs the call recorded as words, in that order

arenaVars == <<CurPtr, End, CurrentSlab, SlabSize>>
clientVars == <<mem, arrays, regions, nops>>
demanglerVars ==
  <<Text, Pos, NodeStack, Substitutions, Words, NumWords, nodes, pc, id, result, built,
    recorded>>

----------------------------------------------------------------------------
(* Bounds of the model *)

\* sizeof(Node) in pointer-sized words
NodeWords == 3
\* number of arena calls the client makes
MaxOps == 4

\* depth of the working stack in the exercise of the stack primitives
MaxStack == 2
\* how far past the end of Text the exercise of the cursor primitives follows Pos
MaxOverrun == 2

----------------------------------------------------------------------------
(* Platform facts *)

NULL == 0
\* sizeof(Slab): one pointer, Slab::Previous
SizeofSlab == 8
\* malloc's alignment guarantee
MallocAlign == 16
\* lowest address malloc hands out
HeapBase == 16

SizeofNode == NodeWords * 8

\* The element types T the arena is used with: char, NodePointer, Node.
CharT == [name |-> "char", size |-> 1, align |-> 1]
PtrT == [name |-> "NodePointer", size |-> 8, align |-> 8]
NodeT == [name |-> "Node", size |-> SizeofNode, align |-> 8]

InitSlabSize == 100 * SizeofNode

Max(a, b) == IF a >= b THEN a ELSE b
Min(a, b) == IF a <= b THEN a ELSE b

----------------------------------------------------------------------------
(* NodeFactory *)

\* (Ptr + Alignment - 1) & ~(Alignment - 1), Alignment a power of two
align(Ptr, Alignment) == ((Ptr + Alignment - 1) \div Alignment) * Alignment

SlabStart(slab) == slab.base + SizeofSlab
SlabEnd(slab) == slab.base + SizeofSlab + slab.size

\* malloc: a block of AllocSize bytes that overlaps no live slab
BlockFree(lo, hi, slabs) ==
  \A i \in 1..Len(slabs) : hi <= slabs[i].base \/ lo >= SlabEnd(slabs[i])

MallocTop(slabs) ==
  LET ends == {HeapBase} \cup {align(SlabEnd(slabs[i]), MallocAlign) : i \in 1..Len(slabs)}
  IN CHOOSE e \in ends : \A f \in ends : f <= e

MallocFirstFit(AllocSize, slabs) ==
  LET cands == {HeapBase} \cup {align(SlabEnd(slabs[i]), MallocAlign) : i \in 1..Len(slabs)}
      free == {c \in cands : BlockFree(c, c + AllocSize, slabs)}
  IN CHOOSE c \in free : \A d \in free : c <= d

\* malloc returns the lowest free block, or one at a distance above every live slab
Malloc(AllocSize, slabs) ==
  {MallocFirstFit(AllocSize, slabs), MallocTop(slabs) + MallocAlign}

NewSlabSize_NoMax(OldSlabSize, ObjectSize) == OldSlabSize * 2

NewSlabSize_NoDouble(OldSlabSize, ObjectSize) == ObjectSize

NewSlabSize_Reset(OldSlabSize, ObjectSize) == Max(InitSlabSize, ObjectSize)

NewSlabSize(OldSlabSize, ObjectSize) == Max(OldSlabSize * 2, ObjectSize)

HasSpace_IgnoresSize(Ptr, ObjectSize, EndPtr) == ~(Ptr > EndPtr)

HasSpace(Ptr, ObjectSize, EndPtr) == ~(Ptr + ObjectSize > EndPtr)

\* an Allocate whose new slab is not linked to the chain (Previous left null)
Allocate_Unlinked(a, T, NumObjects, newSlab) ==
  LET ObjectSize == NumObjects * T.size
      Cur1 == align(a.CurPtr, T.align)
  IN IF ~HasSpace(Cur1, ObjectSize, a.End)
     THEN LET Size2 == NewSlabSize(a.SlabSize, ObjectSize)
              Cur2 == newSlab + SizeofSlab
          IN [CurPtr |-> Cur2 + ObjectSize,
              End |-> Cur2 + Size2,
              CurrentSlab |-> <<[base |-> newSlab, size |-> Size2]>>,
              SlabSize |-> Size2,
              ret |-> Cur2,
              newSlab |-> TRUE]
     ELSE [CurPtr |-> Cur1 + ObjectSize,
           End |-> a.End,
           CurrentSlab |-> a.CurrentSlab,
           SlabSize |-> a.SlabSize,
           ret |-> Cur1,
           newSlab |-> FALSE]

\* Allocate<T>(NumObjects) on the arena a = [CurPtr, End, CurrentSlab, SlabSize];
\* newSlab is the address malloc returns if it is called.
Allocate(a, T, NumObjects, newSlab) ==
  LET ObjectSize == NumObjects * T.size
      Cur1 == align(a.CurPtr, T.align)
  IN IF ~HasSpace(Cur1, ObjectSize, a.End)
     THEN LET Size2 == NewSlabSize(a.SlabSize, ObjectSize)
              Cur2 == newSlab + SizeofSlab
          IN [CurPtr |-> Cur2 + ObjectSize,
              End |-> Cur2 + Size2,
              CurrentSlab |-> <<[base |-> newSlab, size |-> Size2]>> \o a.CurrentSlab,
              SlabSize |-> Size2,
              ret |-> Cur2,
              newSlab |-> TRUE]
     ELSE [CurPtr |-> Cur1 + ObjectSize,
           End |-> a.End,
           CurrentSlab |-> a.CurrentSlab,
           SlabSize |-> a.SlabSize,
           ret |-> Cur1,
           newSlab |-> FALSE]

\* the size malloc is asked for by Allocate<T>(NumObjects), when it asks
AllocSizeOf(a, T, NumObjects) ==
  SizeofSlab + NewSlabSize(a.SlabSize, NumObjects * T.size)

Arena == [CurPtr |-> CurPtr, End |-> End, CurrentSlab |-> CurrentSlab, SlabSize |-> SlabSize]

SetArena(r) ==
  /\ CurPtr' = r.CurPtr
  /\ End' = r.End
  /\ CurrentSlab' = r.CurrentSlab
  /\ SlabSize' = r.SlabSize

CanGrowInPlace_Strict(a, Objects, Capacity, T, MinGrowth) ==
  /\ Objects + Capacity * T.size = a.CurPtr
  /\ a.CurPtr + MinGrowth * T.size < a.End

CanGrowInPlace_NoRoom(a, Objects, Capacity, T, MinGrowth) ==
  Objects + Capacity * T.size = a.CurPtr

CanGrowInPlace_AnyArray(a, Objects, Capacity, T, MinGrowth) ==
  a.CurPtr + MinGrowth * T.size <= a.End

\* The first branch of Reallocate: the array ends at the frontier and the slab has room.
CanGrowInPlace(a, Objects, Capacity, T, MinGrowth) ==
  /\ Objects + Capacity * T.size = a.CurPtr
  /\ a.CurPtr + MinGrowth * T.size <= a.End

ReallocGrowth_MinOnly(Capacity, MinGrowth) == MinGrowth

ReallocGrowth(Capacity, MinGrowth) ==
  LET Growth == IF MinGrowth >= 4 THEN MinGrowth ELSE 4
  IN IF Growth < Capacity * 2 THEN Capacity * 2 ELSE Growth

Memcpy_OneShort(m, dst, src, T, count) ==
  LET inSrc(x) == src <= x /\ x < src + (count - 1) * T.size
      inDst(x) == dst <= x /\ x < dst + (count - 1) * T.size
      written == {(s - src) + dst : s \in {x \in DOMAIN m : inSrc(x)}}
      keep == {x \in DOMAIN m : ~inDst(x)} \cup written
  IN [x \in keep |-> IF x \in written THEN m[(x - dst) + src] ELSE m[x]]

\* memcpy(NewObjects, Objects, OldAllocSize): the count elements of size T.size at
\* src are copied to dst; an element never written stays unwritten in the copy
Memcpy(m, dst, src, T, count) ==
  LET inSrc(x) == src <= x /\ x < src + count * T.size
      inDst(x) == dst <= x /\ x < dst + count * T.size
      written == {(s - src) + dst : s \in {x \in DOMAIN m : inSrc(x)}}
      keep == {x \in DOMAIN m : ~inDst(x)} \cup written
  IN [x \in keep |-> IF x \in written THEN m[(x - dst) + src] ELSE m[x]]

\* NodeFactory::clear(): the head slab is kept and rewound, the others are freed
ClearArena(a) ==
  IF a.CurrentSlab # <<>>
  THEN [a EXCEPT !.CurrentSlab = <<Head(a.CurrentSlab)>>,
                 !.CurPtr = SlabStart(Head(a.CurrentSlab))]
  ELSE a

InSlab(x, slab) == SlabStart(slab) <= x /\ x < SlabEnd(slab)

----------------------------------------------------------------------------
(* Demangler: characters, cursor and working stack *)

MaxNumWords == 26

\* char 0, what peekChar and nextChar return at the end of the input
NUL == "NUL"

Digits == <<"0", "1", "2", "3", "4", "5", "6", "7", "8", "9">>
LowerLetters ==
  <<"a", "b", "c", "d", "e", "f", "g", "h", "i", "j", "k", "l", "m",
    "n", "o", "p", "q", "r", "s", "t", "u", "v", "w", "x", "y", "z">>
UpperLetters ==
  <<"A", "B", "C", "D", "E", "F", "G", "H", "I", "J", "K", "L", "M",
    "N", "O", "P", "Q", "R", "S", "T", "U", "V", "W", "X", "Y", "Z">>

Range(seq) == {seq[i] : i \in 1..Len(seq)}

\* c - first, for a character c of the run of characters chars
Ordinal(chars, c) == (CHOOSE i \in 1..Len(chars) : chars[i] = c) - 1

isDigit(c) == c \in Range(Digits)
isLowerLetter(c) == c \in Range(LowerLetters)
isUpperLetter(c) == c \in Range(UpperLetters)
isLetter(c) == isLowerLetter(c) \/ isUpperLetter(c)

\* Text.substr(Pos): Pos is clamped to the length of the text
substr(text, pos) == SubSeq(text, Min(pos, Len(text)) + 1, Len(text))

startswith(text, str) ==
  Len(text) >= Len(str) /\ SubSeq(text, 1, Len(str)) = str

\* nextIf(StringRef str): whether it matched, and the new Pos
nextIfStr(text, pos, str) ==
  IF ~startswith(substr(text, pos), str)
  THEN [ok |-> FALSE, Pos |-> pos]
  ELSE [ok |-> TRUE, Pos |-> pos + Len(str)]

peekChar(text, pos) == IF pos >= Len(text) THEN NUL ELSE text[pos + 1]

\* nextChar(): the character, and the new Pos
nextChar(text, pos) ==
  IF pos >= Len(text)
  THEN [c |-> NUL, Pos |-> pos]
  ELSE [c |-> text[pos + 1], Pos |-> pos + 1]

\* nextIf(char c)
nextIfChar(text, pos, c) ==
  IF peekChar(text, pos) # c
  THEN [ok |-> FALSE, Pos |-> pos]
  ELSE [ok |-> TRUE, Pos |-> pos + 1]

\* pushBack(): assert(Pos > 0) is the caller's obligation
pushBack(pos) == pos - 1

pushNode(stack, Nd, pos) == Append(stack, [Node |-> Nd, Pos |-> pos])

\* popNode(): the node returned and the stack left
popNode(stack) ==
  IF stack # <<>>
  THEN [Val |-> stack[Len(stack)].Node, stack |-> SubSeq(stack, 1, Len(stack) - 1)]
  ELSE [Val |-> NULL, stack |-> stack]

popNodeKind_AnyKind(stack, nds, kind) == popNode(stack)

\* popNode(Node::Kind kind)
popNodeKind(stack, nds, kind) ==
  IF stack = <<>>
  THEN [Val |-> NULL, stack |-> stack]
  ELSE IF nds[stack[Len(stack)].Node].Kind # kind
       THEN [Val |-> NULL, stack |-> stack]
       ELSE popNode(stack)

\* popNode(Pred pred), the predicate given as the set of kinds it accepts
popNodePred(stack, nds, pred) ==
  IF stack = <<>>
  THEN [Val |-> NULL, stack |-> stack]
  ELSE IF ~(nds[stack[Len(stack)].Node].Kind \in pred)
       THEN [Val |-> NULL, stack |-> stack]
       ELSE popNode(stack)

addSubstitution_Front(subs, Nd) == IF Nd # NULL THEN <<Nd>> \o subs ELSE subs

addSubstitution_Replace(subs, Nd) ==
  IF Nd # NULL /\ subs # <<>> THEN [subs EXCEPT ![Len(subs)] = Nd]
  ELSE IF Nd # NULL THEN <<Nd>> ELSE subs

addSubstitution(subs, Nd) == IF Nd # NULL THEN Append(subs, Nd) ELSE subs

\* init(MangledName): the state of the session a demangle call starts from
init(MangledName) ==
  [NodeStack |-> <<>>, Substitutions |-> <<>>, NumWords |-> 0,
   Text |-> MangledName, Pos |-> 0]

\* demangleNatural(): the number read and the new Pos; -1000 when no digit is next
RECURSIVE NaturalFrom(_, _, _)
NaturalFrom(text, pos, num) ==
  IF ~isDigit(peekChar(text, pos))
  THEN [num |-> num, Pos |-> pos]
  ELSE NaturalFrom(text, pos + 1, 10 * num + Ordinal(Digits, peekChar(text, pos)))

demangleNatural(text, pos) ==
  IF ~isDigit(peekChar(text, pos))
  THEN [num |-> -1000, Pos |-> pos]
  ELSE NaturalFrom(text, pos, 0)

----------------------------------------------------------------------------
(* Demangler: the productions.  A production yields
     ok      whether it returned a node,
     Pos, stack   the cursor and the working stack it leaves,
     make    the node it creates ([Kind, Text, Children]) or NoNode,
     ret     the existing node it returns when it creates none,
     subst   whether it passes the node it creates to addSubstitution,
     refs    the back-references it resolved, [Idx, Node] each. *)

NoNode == [Kind |-> "none"]

TypeKinds == {"BuiltinType", "Structure", "Function", "Metatype"}

Failed(pos, stack) ==
  [ok |-> FALSE, Pos |-> pos, stack |-> stack, make |-> NoNode, ret |-> NULL,
   subst |-> FALSE, refs |-> <<>>]

Made(pos, stack, node, substitutable) ==
  [ok |-> TRUE, Pos |-> pos, stack |-> stack, make |-> node, ret |-> NULL,
   subst |-> substitutable, refs |-> <<>>]

\* a primitive type: a leaf
demangleBuiltinType(pos, stack) ==
  Made(pos, stack, [Kind |-> "BuiltinType", Text |-> <<>>, Children |-> <<>>], FALSE)

\* a nominal type: the name is popped, the type is substitutable
demangleNominalType(pos, stack, nds) ==
  LET Name == popNodeKind(stack, nds, "Identifier")
  IN IF Name.Val = NULL
     THEN Failed(pos, Name.stack)
     ELSE Made(pos, Name.stack,
               [Kind |-> "Structure", Text |-> <<>>, Children |-> <<Name.Val>>], TRUE)

\* a function type: result and parameters are popped, the type is substitutable
popFunctionType(pos, stack, nds) ==
  LET Res == popNodePred(stack, nds, TypeKinds)
      Params == popNodePred(Res.stack, nds, TypeKinds)
  IN IF Res.Val = NULL \/ Params.Val = NULL
     THEN Failed(pos, Params.stack)
     ELSE Made(pos, Params.stack,
               [Kind |-> "Function", Text |-> <<>>, Children |-> <<Params.Val, Res.Val>>],
               TRUE)

\* a metatype of whatever node is on top of the stack
demangleMetatype(pos, stack) ==
  LET Ty == popNode(stack)
  IN IF Ty.Val = NULL
     THEN Failed(pos, Ty.stack)
     ELSE Made(pos, Ty.stack,
               [Kind |-> "Metatype", Text |-> <<>>, Children |-> <<Ty.Val>>], FALSE)

\* Substitutions[Idx], or nullptr when Idx is out of range
Substitution(subs, Idx) == IF Idx >= Len(subs) THEN NULL ELSE subs[Idx + 1]

\* back-references: a lower-case letter pushes a substitution and goes on, an
\* upper-case letter returns one and ends the production
RECURSIVE demangleMultiSubstitutions(_, _, _, _, _)
demangleMultiSubstitutions(text, pos, stack, subs, refs) ==
  LET n == nextChar(text, pos)
      c == n.c
  IN IF isLowerLetter(c)
     THEN LET Idx == Ordinal(LowerLetters, c)
              Nd == Substitution(subs, Idx)
          IN IF Nd = NULL
             THEN [Failed(n.Pos, stack) EXCEPT !.refs = Append(refs, [Idx |-> Idx, Node |-> NULL])]
             ELSE demangleMultiSubstitutions(text, n.Pos, pushNode(stack, Nd, n.Pos), subs,
                                             Append(refs, [Idx |-> Idx, Node |-> Nd]))
     ELSE IF isUpperLetter(c)
     THEN LET Idx == Ordinal(UpperLetters, c)
              Nd == Substitution(subs, Idx)
          IN [ok |-> Nd # NULL, Pos |-> n.Pos, stack |-> stack, make |-> NoNode,
              ret |-> Nd, subst |-> FALSE,
              refs |-> Append(refs, [Idx |-> Idx, Node |-> Nd])]
     ELSE [Failed(n.Pos, stack) EXCEPT !.refs = refs]

demangleOperator(text, pos, stack, subs, nds) ==
  LET n == nextChar(text, pos)
  IN CASE n.c = "B" -> demangleBuiltinType(n.Pos, stack)
       [] n.c = "V" -> demangleNominalType(n.Pos, stack, nds)
       [] n.c = "c" -> popFunctionType(n.Pos, stack, nds)
       [] n.c = "m" -> demangleMetatype(n.Pos, stack)
       [] n.c = "A" -> demangleMultiSubstitutions(text, n.Pos, stack, subs, <<>>)
       [] OTHER -> Failed(n.Pos, stack)

\* the result of demangleSymbol and demangleType once the loop has ended
TopLevelResult_Top(stack) ==
  IF stack = <<>> THEN NULL ELSE stack[Len(stack)].Node

TopLevelResult(stack) ==
  IF Len(stack) = 1 THEN stack[1].Node ELSE NULL

\* word Idx of the identifier being parsed, or "no word" when Idx is out of range
WordAt_Unchecked(words, numWords, Idx) ==
  [ok |-> Idx < MaxNumWords, Slice |-> IF Idx < MaxNumWords THEN words[Idx] ELSE <<>>]

WordAt(words, numWords, Idx) ==
  IF Idx >= numWords
  THEN [ok |-> FALSE, Slice |-> <<>>]
  ELSE [ok |-> TRUE, Slice |-> words[Idx]]

RecordWord_NoCheck(words, numWords, Slice) ==
  [ok |-> TRUE, Words |-> [words EXCEPT ![numWords] = Slice], NumWords |-> numWords + 1]

\* recording a word: it fails when the 26 slots are taken
RecordWord(words, numWords, Slice) ==
  IF numWords >= MaxNumWords
  THEN [ok |-> FALSE, Words |-> words, NumWords |-> numWords]
  ELSE [ok |-> TRUE, Words |-> [words EXCEPT ![numWords] = Slice],
        NumWords |-> numWords + 1]

MANGLING_PREFIX == <<"_", "T", "0">>

DemanglerInit ==
  /\ Text = <<>>
  /\ Pos = 0
  /\ NodeStack = <<>>
  /\ Substitutions = <<>>
  /\ Words = [i \in 0..(MaxNumWords - 1) |-> <<>>]
  /\ NumWords = 0
  /\ nodes = [x \in {} |-> NoNode]
  /\ pc = "idle"
  /\ id = [hasWordSubsts |-> FALSE, Identifier |-> <<>>]
  /\ result = NULL
  /\ built = <<>>
  /\ recorded = <<>>

----------------------------------------------------------------------------
(* A client of the arena: it allocates arrays, writes to them, grows them and
   clears the arena. *)

\* NumObjects just too large for what is left of the first slab, in NodePointers
BigCount == (2 * InitSlabSize) \div PtrT.size
\* a byte count larger than twice the first slab, and odd
HugeCount == 4 * InitSlabSize + 1

AllocInputs ==
  {<<CharT, 0>>, <<CharT, 1>>, <<PtrT, 2>>, <<PtrT, BigCount>>, <<CharT, HugeCount>>}

MinGrowths == {0, 1, BigCount}

NullArrayTypes == {PtrT}

EmptyMem == [x \in {} |-> 0]

\* the client stores v in the first and in the last element of the array
Fill(m, arr, v) ==
  IF arr.Capacity = 0 THEN m
  ELSE LET a1 == arr.Objects
           a2 == arr.Objects + (arr.Capacity - 1) * arr.T.size
       IN [x \in DOMAIN m \cup {a1, a2} |-> IF x \in {a1, a2} THEN v ELSE m[x]]

\* the addresses malloc may return to Allocate<T>(NumObjects); NULL when it is not called
MallocFor(a, T, NumObjects) ==
  IF HasSpace(align(a.CurPtr, T.align), NumObjects * T.size, a.End)
  THEN {NULL}
  ELSE Malloc(AllocSizeOf(a, T, NumObjects), a.CurrentSlab)

Region(ret, T, NumObjects) == [lo |-> ret, hi |-> ret + NumObjects * T.size]

ArenaAllocate(T, NumObjects) ==
  /\ nops < MaxOps
  /\ UNCHANGED demanglerVars
  /\ \E newSlab \in MallocFor(Arena, T, NumObjects) :
       LET r == Allocate(Arena, T, NumObjects, newSlab)
       IN /\ SetArena(r)
          /\ arrays' = Append(arrays, [Objects |-> r.ret, Capacity |-> NumObjects, T |-> T])
          /\ regions' = Append(regions, Region(r.ret, T, NumObjects))
          /\ last' = [op |-> "Allocate", T |-> T, NumObjects |-> NumObjects,
                      ret |-> r.ret, newSlab |-> r.newSlab]
  /\ mem' = mem
  /\ nops' = nops + 1

\* Reallocate(Objects, Capacity, MinGrowth) on the array arr, the i-th of arrs
ReallocateArray(arrs, i, MinGrowth) ==
  LET arr == arrs[i]
      T == arr.T
  IN IF CanGrowInPlace(Arena, arr.Objects, arr.Capacity, T, MinGrowth)
     THEN /\ CurPtr' = CurPtr + MinGrowth * T.size
          /\ UNCHANGED <<End, CurrentSlab, SlabSize, mem, regions>>
          /\ arrays' = [arrs EXCEPT ![i].Capacity = arr.Capacity + MinGrowth]
          /\ last' = [op |-> "Reallocate", idx |-> i, old |-> arr, T |-> T,
                      MinGrowth |-> MinGrowth, inPlace |-> TRUE, newSlab |-> FALSE]
     ELSE LET Growth == ReallocGrowth(arr.Capacity, MinGrowth)
          IN \E newSlab \in MallocFor(Arena, T, arr.Capacity + Growth) :
               LET r == Allocate(Arena, T, arr.Capacity + Growth, newSlab)
               IN /\ SetArena(r)
                  /\ mem' = Memcpy(mem, r.ret, arr.Objects, T, arr.Capacity)
                  /\ arrays' = [arrs EXCEPT ![i] = [Objects |-> r.ret,
                                                    Capacity |-> arr.Capacity + Growth,
                                                    T |-> T]]
                  /\ regions' = Append(regions, Region(r.ret, T, arr.Capacity + Growth))
                  /\ last' = [op |-> "Reallocate", idx |-> i, old |-> arr, T |-> T,
                              MinGrowth |-> MinGrowth, inPlace |-> FALSE,
                              NumObjects |-> arr.Capacity + Growth,
                              ret |-> r.ret, newSlab |-> r.newSlab]

ArenaReallocate(i, MinGrowth) ==
  /\ nops < MaxOps
  /\ UNCHANGED demanglerVars
  /\ i \in 1..Len(arrays)
  /\ ReallocateArray(arrays, i, MinGrowth)
  /\ nops' = nops + 1

\* Reallocate on an array that is still empty: Objects = nullptr, Capacity = 0
ArenaReallocateNull(T, MinGrowth) ==
  /\ nops < MaxOps
  /\ UNCHANGED demanglerVars
  /\ ReallocateArray(Append(arrays, [Objects |-> NULL, Capacity |-> 0, T |-> T]),
                     Len(arrays) + 1, MinGrowth)
  /\ nops' = nops + 1

ClientWrite(i) ==
  /\ nops < MaxOps
  /\ UNCHANGED demanglerVars
  /\ i \in 1..Len(arrays)
  /\ arrays[i].Capacity > 0
  /\ mem' = Fill(mem, arrays[i], nops + 1)
  /\ last' = [op |-> "Write", idx |-> i]
  /\ nops' = nops + 1
  /\ UNCHANGED <<arenaVars, arrays, regions>>

\* clear(): the memory of the freed slabs is gone, the arrays handed out are dead
ArenaClear ==
  /\ nops < MaxOps
  /\ UNCHANGED demanglerVars
  /\ SetArena(ClearArena(Arena))
  /\ LET kept == {x \in DOMAIN mem : CurrentSlab # <<>> /\ InSlab(x, Head(CurrentSlab))}
     IN mem' = [x \in kept |-> mem[x]]
  /\ arrays' = <<>>
  /\ regions' = <<>>
  /\ last' = [op |-> "clear"]
  /\ nops' = nops + 1

Init ==
  /\ CurPtr = NULL
  /\ End = NULL
  /\ CurrentSlab = <<>>
  /\ SlabSize = InitSlabSize
  /\ mem = EmptyMem
  /\ arrays = <<>>
  /\ regions = <<>>
  /\ nops = 0
  /\ last = [op |-> "new"]
  /\ DemanglerInit

vars == <<arenaVars, clientVars, last, demanglerVars>>

ArenaNext ==
  \/ \E in \in AllocInputs : ArenaAllocate(in[1], in[2])
  \/ \E i \in 1..Len(arrays), g \in MinGrowths : ArenaReallocate(i, g)
  \/ \E T \in NullArrayTypes, g \in MinGrowths : ArenaReallocateNull(T, g)
  \/ \E i \in 1..Len(arrays) : ClientWrite(i)
  \/ ArenaClear

SpecArena == Init /\ [][ArenaNext]_vars

----------------------------------------------------------------------------
(* The mangled names the session is given *)

Cat3(a, b, c) == a \o b \o c

\* a one-character identifier followed by 'V': a nominal type
Nominal(c) == <<"1", c, "V">>

\* literal number i (from 0) of a long identifier: one or two times letter i
Literal(i) ==
  LET c == LowerLetters[(i % 26) + 1]
  IN IF i % 2 = 0 THEN <<"1", c>> ELSE <<"2", c, c>>

RECURSIVE Literals(_)
Literals(n) == IF n = 0 THEN <<>> ELSE Literals(n - 1) \o Literal(n - 1)

\* an identifier with word substitutions: '0', n literals, then tail
WordInput(n, tail) == Cat3(<<"0">>, Literals(n), tail)

WordInputs ==
  {WordInput(n, tail) : n \in {1, 2}, tail \in {<<"0">>, <<"a", "0">>, <<"b", "0">>,
                                               <<"B", "0">>, <<"c", "0">>, <<"A", "1", "x">>}}
    \cup {WordInput(MaxNumWords - 1, tail) : tail \in {<<"y", "0">>, <<"z", "0">>}}
    \cup {WordInput(MaxNumWords, tail) : tail \in {<<"0">>, <<"z", "0">>, <<"Z", "0">>}}
    \cup {WordInput(MaxNumWords + 1, <<"0">>)}
    \cup {<<"0", "a", "0">>, <<"0", "0">>, <<"0">>}

CoreInputs ==
  { <<>>, <<"B">>, <<"B", "B">>, <<"x">>, <<"V">>, <<"c">>, <<"m">>,
    <<"1", "a">>, <<"2", "a">>, <<"1">>, <<"1", "a", "V">>,
    <<"B", "B", "c">>, <<"B", "c">>, <<"B", "m">>, <<"1", "a", "c">>,
    <<"A", "A">>, <<"A">>,
    Nominal("a") \o <<"A">>,
    Nominal("a") \o <<"A", "A">>,
    Nominal("a") \o <<"A", "B">>,
    Nominal("a") \o <<"A", "A", "c">>,
    Cat3(Nominal("a"), Nominal("b"), <<"A", "A", "c">>),
    Cat3(Nominal("a"), Nominal("b"), <<"A", "B", "c">>),
    Cat3(Nominal("a"), Nominal("b"), <<"A", "C">>),
    Cat3(Nominal("a"), Nominal("b"), <<"A", "a", "B", "c">>),
    Cat3(Nominal("a"), Nominal("b"), <<"A", "b", "A", "c", "c", "c">>),
    Cat3(Nominal("a"), Nominal("b"), <<"c", "A", "C", "c">>),
    Cat3(Nominal("a"), Nominal("b"), <<"c", "A", "c", "A">>) }

TypeInputs == CoreInputs \cup WordInputs

SymbolInputs ==
  {MANGLING_PREFIX \o body : body \in CoreInputs} \cup {<<>>, <<"B">>, <<"_", "T">>}

----------------------------------------------------------------------------
(* The session: demangleType, demangleSymbol, the steps of the top-level loop
   and of demangleIdentifier, clear() *)

NoWord == [Idx |-> -1]

NewIdentifier == [hasWordSubsts |-> FALSE, Identifier |-> <<>>]

\* a production has returned: its node is created, recorded as a substitution and
\* pushed, or the call fails
Commit(out, name, word) ==
  LET creating == out.ok /\ out.make # NoNode
  IN \E newSlab \in (IF creating THEN MallocFor(Arena, NodeT, 1) ELSE {NULL}) :
       LET r == Allocate(Arena, NodeT, 1, newSlab)
           Nd == IF ~out.ok THEN NULL ELSE IF creating THEN r.ret ELSE out.ret
       IN /\ IF creating
             THEN /\ SetArena(r)
                  /\ nodes' = [x \in DOMAIN nodes \cup {Nd} |->
                                 IF x = Nd THEN out.make ELSE nodes[x]]
             ELSE UNCHANGED <<arenaVars, nodes>>
          /\ Pos' = out.Pos
          /\ Substitutions' = IF out.ok /\ out.subst
                              THEN addSubstitution(Substitutions, Nd)
                              ELSE Substitutions
          /\ built' = IF out.ok /\ out.subst THEN Append(built, Nd) ELSE built
          /\ IF out.ok
             THEN NodeStack' = pushNode(out.stack, Nd, out.Pos) /\ pc' = "parse"
             ELSE NodeStack' = out.stack /\ pc' = "done"
          /\ result' = NULL
          /\ id' = NewIdentifier
          /\ last' = [op |-> name, failed |-> ~out.ok, Node |-> Nd, refs |-> out.refs,
                      word |-> word]

DemangleType(MangledName) ==
  /\ pc = "idle"
  /\ LET s == init(MangledName)
     IN /\ Text' = s.Text
        /\ Pos' = s.Pos
        /\ NodeStack' = s.NodeStack
        /\ Substitutions' = s.Substitutions
        /\ NumWords' = s.NumWords
  /\ pc' = "parse"
  /\ result' = NULL
  /\ built' = <<>>
  /\ recorded' = <<>>
  /\ id' = NewIdentifier
  /\ last' = [op |-> "demangleType", failed |-> FALSE]
  /\ UNCHANGED <<arenaVars, clientVars, Words, nodes>>

DemangleSymbol(MangledName) ==
  /\ pc = "idle"
  /\ LET s == init(MangledName)
         p == nextIfStr(s.Text, s.Pos, MANGLING_PREFIX)
     IN /\ Text' = s.Text
        /\ Pos' = p.Pos
        /\ NodeStack' = s.NodeStack
        /\ Substitutions' = s.Substitutions
        /\ NumWords' = s.NumWords
        /\ pc' = IF p.ok THEN "parse" ELSE "done"
        /\ last' = [op |-> "demangleSymbol", failed |-> ~p.ok]
  /\ result' = NULL
  /\ built' = <<>>
  /\ recorded' = <<>>
  /\ id' = NewIdentifier
  /\ UNCHANGED <<arenaVars, clientVars, Words, nodes>>

\* one turn of the top-level loop on an operator character
Operator ==
  /\ pc = "parse"
  /\ Pos < Len(Text)
  /\ ~isDigit(peekChar(Text, Pos))
  /\ Commit(demangleOperator(Text, Pos, NodeStack, Substitutions, nodes), "operator", NoWord)
  /\ UNCHANGED <<clientVars, Text, Words, NumWords, recorded>>

\* one turn of the top-level loop on a digit: demangleIdentifier starts; a
\* leading '0' announces word substitutions
IdentifierBegin ==
  /\ pc = "parse"
  /\ Pos < Len(Text)
  /\ isDigit(peekChar(Text, Pos))
  /\ LET z == nextIfChar(Text, Pos, "0")
     IN /\ Pos' = z.Pos
        /\ id' = [hasWordSubsts |-> z.ok, Identifier |-> <<>>]
  /\ pc' = "ident"
  /\ last' = [op |-> "identifier", failed |-> FALSE]
  /\ UNCHANGED <<arenaVars, clientVars, Text, NodeStack, Substitutions, Words, NumWords,
                 nodes, result, built, recorded>>

AtWordCode == id.hasWordSubsts /\ isLetter(peekChar(Text, Pos))

\* the identifier is complete: its node is created and pushed
IdentifierNode(pos, Identifier) ==
  IF Identifier = <<>>
  THEN Failed(pos, NodeStack)
  ELSE Made(pos, NodeStack, [Kind |-> "Identifier", Text |-> Identifier, Children |-> <<>>],
            FALSE)

\* demangleIdentifier: a letter that stands for a recorded word
IdentifierWordCode ==
  /\ pc = "ident"
  /\ AtWordCode
  /\ LET n == nextChar(Text, Pos)
         lower == isLowerLetter(n.c)
         Idx == IF lower THEN Ordinal(LowerLetters, n.c) ELSE Ordinal(UpperLetters, n.c)
         w == WordAt(Words, NumWords, Idx)
     IN /\ Pos' = n.Pos
        /\ pc' = IF w.ok THEN "ident" ELSE "done"
        /\ id' = IF w.ok
                 THEN [hasWordSubsts |-> lower, Identifier |-> id.Identifier \o w.Slice]
                 ELSE NewIdentifier
        /\ last' = [op |-> "wordcode", failed |-> ~w.ok,
                    word |-> [Idx |-> Idx, Slice |-> w.Slice]]
  /\ result' = NULL
  /\ UNCHANGED <<arenaVars, clientVars, Text, NodeStack, Substitutions, Words, NumWords,
                 nodes, built, recorded>>

\* demangleIdentifier: a literal run of characters, recorded as a new word
IdentifierLiteral ==
  /\ pc = "ident"
  /\ ~AtWordCode
  /\ peekChar(Text, Pos) # "0"
  /\ LET nat == demangleNatural(Text, Pos)
         numChars == nat.num
         fits == numChars > 0 /\ nat.Pos + numChars <= Len(Text)
         Slice == IF fits THEN SubSeq(Text, nat.Pos + 1, nat.Pos + numChars) ELSE <<>>
         rec == RecordWord(Words, NumWords, Slice)
         ok == fits /\ rec.ok
         word == [Idx |-> NumWords, Slice |-> Slice, recorded |-> ok]
     IN /\ recorded' = IF ok THEN Append(recorded, Slice) ELSE recorded
        /\ IF ok /\ id.hasWordSubsts
           THEN /\ Words' = rec.Words
                /\ NumWords' = rec.NumWords
                /\ Pos' = nat.Pos + numChars
                /\ id' = [id EXCEPT !.Identifier = id.Identifier \o Slice]
                /\ last' = [op |-> "literal", failed |-> FALSE, word |-> word]
                /\ result' = NULL
                /\ UNCHANGED <<arenaVars, NodeStack, Substitutions, nodes, pc, built>>
           ELSE /\ Words' = IF ok THEN rec.Words ELSE Words
                /\ NumWords' = IF ok THEN rec.NumWords ELSE NumWords
                /\ Commit(IF ok
                          THEN IdentifierNode(nat.Pos + numChars, id.Identifier \o Slice)
                          ELSE Failed(nat.Pos, NodeStack),
                          "literal", word)
  /\ UNCHANGED <<clientVars, Text>>

\* demangleIdentifier: the '0' that ends an identifier with word substitutions
IdentifierEnd ==
  /\ pc = "ident"
  /\ ~AtWordCode
  /\ peekChar(Text, Pos) = "0"
  /\ Commit(IdentifierNode(Pos + 1, id.Identifier), "identifierEnd", NoWord)
  /\ UNCHANGED <<clientVars, Text, Words, NumWords, recorded>>

\* the input is exhausted: demangleSymbol / demangleType return
Return ==
  /\ pc = "parse"
  /\ Pos >= Len(Text)
  /\ result' = TopLevelResult(NodeStack)
  /\ pc' = "done"
  /\ last' = [op |-> "return", failed |-> FALSE]
  /\ UNCHANGED <<arenaVars, clientVars, Text, Pos, NodeStack, Substitutions, Words,
                 NumWords, nodes, id, built, recorded>>

\* a clear() that Demangler would have declared for itself, emptying the session
Clear_ResetsSession ==
  /\ pc \in {"idle", "done"}
  /\ SetArena(ClearArena(Arena))
  /\ nodes' = [x \in {} |-> NoNode]
  /\ pc' = "idle"
  /\ last' = [op |-> "clear", failed |-> FALSE]
  /\ Substitutions' = <<>>
  /\ NodeStack' = <<>>
  /\ NumWords' = 0
  /\ Pos' = 0
  /\ UNCHANGED <<clientVars, Text, Words, id, result, built, recorded>>

\* clear() on the session is NodeFactory::clear(): Demangler declares none of its
\* own.  The nodes of the arena are dead from here on.
Clear ==
  /\ pc \in {"idle", "done"}
  /\ SetArena(ClearArena(Arena))
  /\ nodes' = [x \in {} |-> NoNode]
  /\ pc' = "idle"
  /\ last' = [op |-> "clear", failed |-> FALSE]
  /\ UNCHANGED <<clientVars, Text, Pos, NodeStack, Substitutions, Words, NumWords, id,
                 result, built, recorded>>

Next ==
  \/ \E MangledName \in TypeInputs : DemangleType(MangledName)
  \/ \E MangledName \in SymbolInputs : DemangleSymbol(MangledName)
  \/ Operator
  \/ IdentifierBegin
  \/ IdentifierWordCode
  \/ IdentifierLiteral
  \/ IdentifierEnd
  \/ Return
  \/ Clear

Spec == Init /\ [][Next]_vars

----------------------------------------------------------------------------
(* The cursor and stack primitives of Demangler, called one at a time on a
   session that holds a text and three nodes *)

PrimTexts == {<<>>, <<"a">>, <<"a", "b">>, <<"a", NUL, "b">>}

PrimLiterals == {<<>>, <<"a">>, <<"b">>, <<"a", "b">>, <<"a", "b", "c">>}

PrimChars == {"a", "b", NUL}

PrimSlab == [base |-> HeapBase, size |-> NewSlabSize(InitSlabSize, SizeofNode)]

PrimNodeAt(k) == SlabStart(PrimSlab) + (k - 1) * SizeofNode

PrimNodes ==
  [x \in {PrimNodeAt(1), PrimNodeAt(2), PrimNodeAt(3)} |->
     IF x = PrimNodeAt(1) THEN [Kind |-> "Identifier", Text |-> <<"a">>, Children |-> <<>>]
     ELSE IF x = PrimNodeAt(2) THEN [Kind |-> "BuiltinType", Text |-> <<>>, Children |-> <<>>]
     ELSE [Kind |-> "Structure", Text |-> <<>>, Children |-> <<PrimNodeAt(1)>>]]

PrimKinds == {"Identifier", "Structure"}

PrimPreds == {TypeKinds, {"Identifier"}}

\* a session after init(MangledName) and three createNode calls
PrimInit ==
  /\ CurrentSlab = <<PrimSlab>>
  /\ CurPtr = PrimNodeAt(4)
  /\ End = SlabEnd(PrimSlab)
  /\ SlabSize = PrimSlab.size
  /\ mem = EmptyMem
  /\ arrays = <<>>
  /\ regions = <<>>
  /\ nops = 0
  /\ last = [op |-> "init"]
  /\ \E MangledName \in PrimTexts :
       LET s == init(MangledName)
       IN /\ Text = s.Text
          /\ Pos = s.Pos
          /\ NodeStack = s.NodeStack
          /\ Substitutions = s.Substitutions
          /\ NumWords = s.NumWords
  /\ Words = [i \in 0..(MaxNumWords - 1) |-> <<>>]
  /\ nodes = PrimNodes
  /\ pc = "idle"
  /\ id = NewIdentifier
  /\ result = NULL
  /\ built = <<>>
  /\ recorded = <<>>

primFrame ==
  <<arenaVars, clientVars, Text, Substitutions, Words, NumWords, nodes, pc, id, result,
    built, recorded>>

CursorPeekChar ==
  /\ last' = [op |-> "peekChar", c |-> peekChar(Text, Pos), Pos |-> Pos]
  /\ UNCHANGED <<primFrame, Pos, NodeStack>>

CursorNextChar ==
  /\ LET n == nextChar(Text, Pos)
     IN /\ Pos' = n.Pos
        /\ last' = [op |-> "nextChar", c |-> n.c, Pos |-> Pos]
  /\ UNCHANGED <<primFrame, NodeStack>>

CursorNextIfStr(str) ==
  /\ LET r == nextIfStr(Text, Pos, str)
     IN /\ Pos' = r.Pos
        /\ last' = [op |-> "nextIf", str |-> str, ok |-> r.ok, Pos |-> Pos]
  /\ UNCHANGED <<primFrame, NodeStack>>

CursorNextIfChar(c) ==
  /\ Pos < Len(Text) + MaxOverrun
  /\ LET r == nextIfChar(Text, Pos, c)
     IN /\ Pos' = r.Pos
        /\ last' = [op |-> "nextIf", str |-> <<c>>, ok |-> r.ok, Pos |-> Pos]
  /\ UNCHANGED <<primFrame, NodeStack>>

CursorPushBack ==
  /\ Pos > 0
  /\ Pos' = pushBack(Pos)
  /\ last' = [op |-> "pushBack", Pos |-> Pos]
  /\ UNCHANGED <<primFrame, NodeStack>>

StackPush(Nd) ==
  /\ Len(NodeStack) < MaxStack
  /\ NodeStack' = pushNode(NodeStack, Nd, Pos)
  /\ last' = [op |-> "pushNode", Node |-> Nd]
  /\ UNCHANGED <<primFrame, Pos>>

StackPop ==
  /\ LET r == popNode(NodeStack)
     IN /\ NodeStack' = r.stack
        /\ last' = [op |-> "popNode", Val |-> r.Val]
  /\ UNCHANGED <<primFrame, Pos>>

StackPopKind(kind) ==
  /\ LET r == popNodeKind(NodeStack, nodes, kind)
     IN /\ NodeStack' = r.stack
        /\ last' = [op |-> "popNodeKind", kind |-> kind, Val |-> r.Val]
  /\ UNCHANGED <<primFrame, Pos>>

StackPopPred(pred) ==
  /\ LET r == popNodePred(NodeStack, nodes, pred)
     IN /\ NodeStack' = r.stack
        /\ last' = [op |-> "popNodePred", pred |-> pred, Val |-> r.Val]
  /\ UNCHANGED <<primFrame, Pos>>

PrimNext ==
  \/ CursorPeekChar
  \/ CursorNextChar
  \/ \E str \in PrimLiterals : CursorNextIfStr(str)
  \/ \E c \in PrimChars : CursorNextIfChar(c)
  \/ CursorPushBack
  \/ \E Nd \in DOMAIN PrimNodes : StackPush(Nd)
  \/ StackPop
  \/ \E kind \in PrimKinds : StackPopKind(kind)
  \/ \E pred \in PrimPreds : StackPopPred(pred)

SpecPrimitives == PrimInit /\ [][PrimNext]_vars

----------------------------------------------------------------------------
(* Properties of the arena *)

\* the next address at or above p that is a multiple of a
AlignedUp(p, a) == p + ((a - (p % a)) % a)

\* the step is a call of Allocate<T>, by the client or from inside Reallocate
AllocateCalled ==
  /\ nops' = nops + 1
  /\ \/ last'.op = "Allocate"
     \/ last'.op = "Reallocate" /\ ~last'.inPlace

ReallocateCalled == nops' = nops + 1 /\ last'.op = "Reallocate"

ClearCalled == nops' = nops + 1 /\ last'.op = "clear"

\* the request of the step fits between the aligned frontier and the end of the slab
RequestFits ==
  AlignedUp(CurPtr, last'.T.align) + last'.NumObjects * last'.T.size <= End

PreviousSlabCapacity ==
  IF CurrentSlab = <<>> THEN InitSlabSize ELSE Head(CurrentSlab).size

\* the value of memory at x: 0 where nothing was stored (the client stores values > 0)
Value(m, x) == IF x \in DOMAIN m THEN m[x] ELSE 0

\* the addresses of m, old or new, inside [lo, hi)
Written(m1, m2, lo, hi) == {x \in DOMAIN m1 \cup DOMAIN m2 : lo <= x /\ x < hi}

(* C6: a call of Allocate whose request does not fit between the aligned frontier
   and the end of the current slab (the first allocation of an arena with no slab
   included) creates one slab of capacity max(2 x the previous slab capacity,
   requested bytes), makes it the head of the chain and returns its data start; a
   call whose request fits creates no slab. *)
C6_AllocateSlabPolicy ==
  [][AllocateCalled =>
       IF RequestFits
       THEN CurrentSlab' = CurrentSlab /\ SlabSize' = SlabSize
       ELSE /\ CurrentSlab' # <<>>
            /\ Tail(CurrentSlab') = CurrentSlab
            /\ Head(CurrentSlab').size
                 = Max(2 * PreviousSlabCapacity, last'.NumObjects * last'.T.size)
            /\ last'.ret = SlabStart(Head(CurrentSlab'))
            /\ End' = SlabEnd(Head(CurrentSlab'))]_vars

C6_Witness ==
  /\ last.op \in {"Allocate", "Reallocate"}
  /\ last.newSlab
  /\ Len(CurrentSlab) >= 2
  /\ Head(CurrentSlab).size = last.NumObjects * last.T.size

RegionInSlab(r, slab) == SlabStart(slab) <= r.lo /\ r.hi <= SlabEnd(slab)

RegionsDisjoint(r1, r2) == r1.hi <= r2.lo \/ r2.hi <= r1.lo

(* C7: the regions returned by Allocate since the last clear() are pairwise
   non-overlapping, each lies inside one slab (the empty region returned at
   nullptr by a zero-size request on an arena with no slab lies in none), and
   within one slab a later region starts at or after the end of an earlier one. *)
C7_RegionsDisjointOrdered ==
  /\ \A i \in 1..Len(regions) : \A j \in 1..Len(regions) :
       i < j => RegionsDisjoint(regions[i], regions[j])
  /\ \A i \in 1..Len(regions) :
       \/ regions[i].lo = NULL /\ regions[i].hi = NULL
       \/ \E k \in 1..Len(CurrentSlab) : RegionInSlab(regions[i], CurrentSlab[k])
  /\ \A i \in 1..Len(regions) : \A j \in 1..Len(regions) :
       /\ i < j
       /\ \E k \in 1..Len(CurrentSlab) :
            RegionInSlab(regions[i], CurrentSlab[k]) /\ RegionInSlab(regions[j], CurrentSlab[k])
       => regions[i].hi <= regions[j].lo

C7_Witness ==
  /\ Len(regions) >= 3
  /\ Len(CurrentSlab) >= 2
  /\ \E i \in 1..Len(regions) : \E j \in 1..Len(regions) :
       /\ i < j
       /\ regions[i].lo < regions[i].hi
       /\ regions[j].lo < regions[j].hi
       /\ \E k \in 1..Len(CurrentSlab) :
            RegionInSlab(regions[i], CurrentSlab[k]) /\ RegionInSlab(regions[j], CurrentSlab[k])

\* the array of the step ends exactly at the frontier and the slab has the headroom
AtFrontierWithRoom ==
  LET arr == last'.old
  IN /\ arr.Objects + arr.Capacity * arr.T.size = CurPtr
     /\ CurPtr + last'.MinGrowth * arr.T.size <= End

(* C8: Reallocate on an array that ends exactly at CurPtr, with
   CurPtr + MinGrowth*sizeof(T) <= End, keeps Objects and the contents of the
   array, adds exactly MinGrowth to Capacity, advances CurPtr by exactly
   MinGrowth*sizeof(T) and creates no slab. *)
C8_ReallocateInPlace ==
  [][ReallocateCalled /\ AtFrontierWithRoom =>
       LET arr == last'.old
           new == arrays'[last'.idx]
       IN /\ new.Objects = arr.Objects
          /\ new.Capacity = arr.Capacity + last'.MinGrowth
          /\ CurPtr' = CurPtr + last'.MinGrowth * arr.T.size
          /\ CurrentSlab' = CurrentSlab
          /\ End' = End
          /\ \A x \in Written(mem, mem', arr.Objects, arr.Objects + arr.Capacity * arr.T.size) :
               Value(mem', x) = Value(mem, x)]_vars

C8_Witness ==
  /\ last.op = "Reallocate"
  /\ last.inPlace
  /\ last.MinGrowth > 0
  /\ last.old.Capacity > 0
  /\ last.old.Objects \in DOMAIN mem
  /\ arrays[last.idx].Capacity = last.old.Capacity + last.MinGrowth

(* C9: Reallocate on an array that is not at the frontier, or is at the frontier
   without the headroom, moves Objects to another address, the first old-Capacity
   elements there equal the old contents, Capacity grows by at least MinGrowth and
   the old region is left as it was. *)
C9_ReallocateMoves ==
  [][ReallocateCalled /\ ~AtFrontierWithRoom =>
       LET arr == last'.old
           new == arrays'[last'.idx]
           size == arr.T.size
       IN /\ new.Objects # arr.Objects
          /\ new.Capacity >= arr.Capacity + last'.MinGrowth
          /\ \A x \in Written(mem, mem, arr.Objects, arr.Objects + arr.Capacity * size) :
               Value(mem', (x - arr.Objects) + new.Objects) = mem[x]
          /\ \A y \in Written(mem', mem', new.Objects, new.Objects + arr.Capacity * size) :
               Value(mem, (y - new.Objects) + arr.Objects) = mem'[y]
          /\ \A x \in Written(mem, mem', arr.Objects, arr.Objects + arr.Capacity * size) :
               Value(mem', x) = Value(mem, x)]_vars

C9_Witness ==
  /\ last.op = "Reallocate"
  /\ ~last.inPlace
  /\ ~last.newSlab
  /\ last.old.Capacity > 1
  /\ arrays[last.idx].Objects \in DOMAIN mem
  /\ arrays[last.idx].Objects # last.old.Objects
  /\ last.old.Objects \in DOMAIN mem

(* C10: clear() on an arena that owns a slab leaves exactly the head of the chain,
   the slab allocated last, which is larger than every other slab of the chain;
   CurPtr moves to its data start, End and SlabSize stay, the other slabs are
   freed. *)
C10_ClearKeepsLargest ==
  [][ClearCalled /\ CurrentSlab # <<>> =>
       /\ CurrentSlab' = <<Head(CurrentSlab)>>
       /\ \A k \in 2..Len(CurrentSlab) : CurrentSlab[k].size < Head(CurrentSlab).size
       /\ CurPtr' = SlabStart(Head(CurrentSlab))
       /\ End' = End
       /\ End' = SlabEnd(Head(CurrentSlab))
       /\ SlabSize' = SlabSize
       /\ SlabSize' = Head(CurrentSlab).size]_vars

C10_Witness ==
  /\ last.op = "clear"
  /\ Len(CurrentSlab) = 1
  /\ CurPtr = SlabStart(Head(CurrentSlab))
  /\ SlabSize > 2 * InitSlabSize

ArrayRegion(arr) == [lo |-> arr.Objects, hi |-> arr.Objects + arr.Capacity * arr.T.size]

\* two regions share a byte
RegionsOverlap(r1, r2) == Max(r1.lo, r2.lo) < Min(r1.hi, r2.hi)

(* C11: no call of Allocate, Reallocate or clear() makes SlabSize smaller, and
   clear() leaves it as it was. *)
C11_SlabSizeMonotone ==
  [][/\ SlabSize' >= SlabSize
     /\ ClearCalled => SlabSize' = SlabSize]_vars

\* a slab allocated after a clear(): SlabSize has grown before and after it
C11_Witness ==
  /\ Len(CurrentSlab) = 2
  /\ Len(regions) = 1
  /\ SlabSize > 4 * InitSlabSize

(* C13: a call of Allocate that creates a slab puts it in front of the chain, the
   chain as it was behind it; the regions returned before are the same regions,
   the arrays held (but the one being reallocated) are where they were, and the
   contents of all of them are what they were. *)
C13_NewSlabKeepsOld ==
  [][AllocateCalled /\ last'.newSlab =>
       /\ CurrentSlab' # <<>>
       /\ Tail(CurrentSlab') = CurrentSlab
       /\ Len(regions') = Len(regions) + 1
       /\ \A i \in 1..Len(regions) :
            /\ regions'[i] = regions[i]
            /\ \A x \in Written(mem, mem', regions[i].lo, regions[i].hi) :
                 Value(mem', x) = Value(mem, x)
       /\ \A i \in 1..Len(arrays) :
            /\ (last'.op = "Reallocate" /\ last'.idx = i) \/ arrays'[i] = arrays[i]
            /\ \A x \in Written(mem, mem', ArrayRegion(arrays[i]).lo, ArrayRegion(arrays[i]).hi) :
                 Value(mem', x) = Value(mem, x)]_vars

C13_Witness ==
  /\ last.op \in {"Allocate", "Reallocate"}
  /\ last.newSlab
  /\ Len(CurrentSlab) >= 2
  /\ \E i \in 1..(Len(regions) - 1) :
       /\ regions[i].lo \in DOMAIN mem
       /\ RegionInSlab(regions[i], CurrentSlab[Len(CurrentSlab)])

(* C14: after every call CurPtr <= End; with a slab in the chain End is the end
   of the head slab and CurPtr is not before its data. *)
C14_FrontierWithinSlab ==
  /\ CurPtr <= End
  /\ CurrentSlab = <<>> => CurPtr = NULL /\ End = NULL
  /\ CurrentSlab # <<>> =>
       /\ End = SlabEnd(Head(CurrentSlab))
       /\ SlabStart(Head(CurrentSlab)) <= CurPtr

\* the slab is full and its end is not pointer-aligned
C14_Witness ==
  /\ last.op = "Allocate"
  /\ CurrentSlab # <<>>
  /\ CurPtr = End
  /\ End % PtrT.align # 0

(* C15: a Reallocate that cannot grow in place calls Allocate for exactly
   Capacity + Growth elements and sets Capacity to that number; Growth is at
   least MinGrowth, at least 4 and at least the old Capacity; the region is the
   one Allocate returned last. *)
C15_ReallocateGrowth ==
  [][ReallocateCalled /\ ~AtFrontierWithRoom =>
       LET arr == last'.old
           new == arrays'[last'.idx]
           Growth == new.Capacity - arr.Capacity
       IN /\ Growth >= last'.MinGrowth
          /\ Growth >= 4
          /\ Growth >= arr.Capacity
          /\ last'.NumObjects = arr.Capacity + Growth
          /\ Len(regions') = Len(regions) + 1
          /\ regions'[Len(regions')] = ArrayRegion(new)
          /\ \A i \in 1..Len(regions) : ~RegionsOverlap(regions[i], ArrayRegion(new))]_vars

C15_Witness ==
  /\ last.op = "Reallocate"
  /\ ~last.inPlace
  /\ last.MinGrowth < 4
  /\ last.old.Capacity > 4
  /\ arrays[last.idx].Capacity = 3 * last.old.Capacity

(* C20: every array the client holds has its Capacity elements inside one slab of
   the chain, below the frontier when that slab is the head, and shares no byte
   with another array it holds.  (An array of Capacity 0 at nullptr, from an arena
   that has no slab yet, lies in no slab.) *)
C20_CapacityBacked ==
  /\ \A i \in 1..Len(arrays) :
       LET r == ArrayRegion(arrays[i])
       IN \/ arrays[i].Objects = NULL /\ arrays[i].Capacity = 0
          \/ \E k \in 1..Len(CurrentSlab) :
               /\ RegionInSlab(r, CurrentSlab[k])
               /\ k = 1 => r.hi <= CurPtr
  /\ \A i \in 1..Len(arrays) : \A j \in 1..Len(arrays) :
       i < j => ~RegionsOverlap(ArrayRegion(arrays[i]), ArrayRegion(arrays[j]))

C20_Witness ==
  /\ last.op = "Reallocate"
  /\ last.inPlace
  /\ last.MinGrowth > 0
  /\ Len(CurrentSlab) >= 2
  /\ \E i \in 1..Len(arrays) :
       /\ i # last.idx
       /\ arrays[i].Capacity > 0
       /\ RegionInSlab(ArrayRegion(arrays[i]), CurrentSlab[2])


----------------------------------------------------------------------------
(* Properties of the primitives, checked under SpecPrimitives *)

\* the top entry of the working stack before the step
TopEntry == NodeStack[Len(NodeStack)]

\* the step removed exactly the top entry and returned its node
PoppedTop ==
  /\ last'.Val = TopEntry.Node
  /\ last'.Val # NULL
  /\ NodeStack' = SubSeq(NodeStack, 1, Len(NodeStack) - 1)

\* the step returned null and left the stack as it was
PoppedNothing == last'.Val = NULL /\ NodeStack' = NodeStack

(* C12: popNode() on an empty stack returns null and leaves it empty, otherwise
   it removes the top entry and returns its node; popNode(kind) and popNode(pred)
   return null and leave the stack as it was when it is empty or the kind of the
   top node does not match, otherwise they remove the top entry and return its
   node. *)
C12_PopNode ==
  [][/\ last'.op = "popNode" =>
          IF NodeStack = <<>> THEN PoppedNothing /\ NodeStack' = <<>> ELSE PoppedTop
     /\ last'.op = "popNodeKind" =>
          IF NodeStack = <<>> \/ nodes[TopEntry.Node].Kind # last'.kind
          THEN PoppedNothing
          ELSE PoppedTop
     /\ last'.op = "popNodePred" =>
          IF NodeStack = <<>> \/ nodes[TopEntry.Node].Kind \notin last'.pred
          THEN PoppedNothing
          ELSE PoppedTop]_vars

\* popNode(kind) has refused a stack of two whose top node is of another kind
C12_Witness ==
  /\ last.op = "popNodeKind"
  /\ last.Val = NULL
  /\ Len(NodeStack) = 2
  /\ nodes[NodeStack[2].Node].Kind # last.kind

\* the text from the cursor on starts with the literal
StartsWithAt(text, pos, str) ==
  LET rest == SubSeq(text, Min(pos, Len(text)) + 1, Len(text))
  IN Len(str) <= Len(rest) /\ SubSeq(rest, 1, Len(str)) = str

(* C16: nextIf returns true exactly when the text at the cursor starts with the
   literal, and then Pos has advanced by the length of the literal; when it
   returns false Pos is as it was; peekChar leaves Pos as it was; at or past the
   end of the text peekChar and nextChar return the sentinel 0 and leave Pos as
   it was. *)
C16_CursorPrimitives ==
  [][/\ last'.op = "nextIf" =>
          /\ last'.ok <=> StartsWithAt(Text, Pos, last'.str)
          /\ last'.ok => Pos' = Pos + Len(last'.str)
          /\ ~last'.ok => Pos' = Pos
     /\ last'.op = "peekChar" =>
          /\ Pos' = Pos
          /\ Pos >= Len(Text) => last'.c = NUL
     /\ (last'.op = "nextChar" /\ Pos >= Len(Text)) =>
          /\ last'.c = NUL
          /\ Pos' = Pos]_vars

(* C18: the cursor stays within the text, 0 <= Pos <= length of Text. *)
C18_CursorInText == 0 <= Pos /\ Pos <= Len(Text)

(* C19: a pushBack() that follows a nextChar() immediately puts Pos back where
   it was before the nextChar(). *)
C19_PushBackUndoesNextChar ==
  [][(last.op = "nextChar" /\ last'.op = "pushBack") => Pos' = last.Pos]_vars

----------------------------------------------------------------------------
(* Properties of the session, checked under Spec *)

InCall == pc \in {"parse", "ident", "done"}

CallEntered == last'.op \in {"demangleType", "demangleSymbol"}

SessionCleared == last'.op = "clear"

BackReferenced == last'.op = "operator" /\ last'.refs # <<>>

(* C1: when demangleSymbol or demangleType has returned, the result is non-null
   exactly when no production failed and the working stack holds one node, and
   then the result is that node, a node of the arena; after a failed production,
   or with the stack empty or two or more deep, the result is null. *)
C1_NoPartialTree ==
  pc = "done" =>
    /\ (result # NULL) <=> (~last.failed /\ Len(NodeStack) = 1)
    /\ result # NULL => result = NodeStack[1].Node /\ result \in DOMAIN nodes

C1_Witness ==
  /\ pc = "done"
  /\ ~last.failed
  /\ Len(NodeStack) >= 2
  /\ result = NULL

(* C2, as the specification states it: after clear() the substitution list, the
   word count, the cursor and the working stack are empty. *)
C2_ClearEmptiesSession ==
  last.op = "clear" =>
    /\ Substitutions = <<>>
    /\ NumWords = 0
    /\ Pos = 0
    /\ NodeStack = <<>>

(* C2, as the code has it: clear() on a session is NodeFactory::clear(); it
   rewinds the arena to the start of the one slab it keeps, SlabSize as it was,
   and leaves the substitution list, the words, the cursor and the working stack
   as the last call left them.  It is the demangle call that empties them: a
   call starts with no substitution, no word and an empty stack, and all through
   the call the substitution list is exactly the substitutable nodes the call has
   completed and the first NumWords words are exactly the words it has recorded,
   whatever the call before recorded. *)
C2_ClearRewindsCallEmpties ==
  /\ [][SessionCleared =>
          /\ UNCHANGED <<Substitutions, Words, NumWords, Pos, NodeStack, Text>>
          /\ SlabSize' = SlabSize
          /\ End' = End
          /\ CurrentSlab # <<>> =>
               CurrentSlab' = <<Head(CurrentSlab)>> /\ CurPtr' = SlabStart(Head(CurrentSlab))
          /\ CurrentSlab = <<>> => CurrentSlab' = <<>> /\ CurPtr' = CurPtr]_vars
  /\ [][CallEntered =>
          /\ Substitutions' = <<>>
          /\ NumWords' = 0
          /\ NodeStack' = <<>>
          /\ Pos' \in {0, Len(MANGLING_PREFIX)}]_vars
  /\ [](InCall =>
          /\ Substitutions = built
          /\ NumWords = Len(recorded)
          /\ \A i \in 0..(NumWords - 1) : Words[i] = recorded[i + 1])

\* a call has ended with one substitution and one word of its own, in a session
\* whose second word slot still holds a word of the call before the clear()
C2_Witness ==
  /\ pc = "done"
  /\ Len(Substitutions) = 1
  /\ NumWords = 1
  /\ Words[1] # <<>>
  /\ CurrentSlab # <<>>

(* C3: all through a call the substitution list is n0..nk, the substitutable
   nodes completed so far, in that order.  A back-reference for an index i <= k
   yields Substitutions[i] = ni itself: the node pushed (or returned and pushed)
   is that address, and the step creates no node and allocates nothing.  A
   back-reference for an index > k yields null: the production fails and the
   call returns null. *)
C3_BackReference ==
  [][/\ InCall' => Substitutions' = built'
     /\ BackReferenced =>
          /\ UNCHANGED <<nodes, CurPtr, CurrentSlab, Substitutions, built>>
          /\ \A j \in 1..Len(last'.refs) :
               LET ref == last'.refs[j]
               IN IF ref.Idx < Len(built)
                  THEN /\ ref.Node = built[ref.Idx + 1]
                       /\ ref.Node = Substitutions[ref.Idx + 1]
                       /\ ref.Node \in DOMAIN nodes
                  ELSE /\ ref.Node = NULL
                       /\ j = Len(last'.refs)
                       /\ last'.failed
          /\ ~last'.failed =>
               /\ Len(NodeStack') = Len(NodeStack) + Len(last'.refs)
               /\ \A j \in 1..Len(last'.refs) :
                    NodeStack'[Len(NodeStack) + j].Node = last'.refs[j].Node
          /\ last'.failed => pc' = "done" /\ result' = NULL]_vars

C3_Witness ==
  /\ last.op = "operator"
  /\ ~last.failed
  /\ Len(built) >= 2
  /\ \E j \in 1..Len(last.refs) :
       /\ last.refs[j].Idx = 1
       /\ last.refs[j].Node = built[2]
       /\ NodeStack[Len(NodeStack) - Len(last.refs) + j].Node = built[2]

(* C4: a letter code with ordinal i resolves to Words[i], the i-th word the call
   recorded, when i < NumWords, and the identifier goes on; with i >= NumWords
   the parse fails and the call returns null. *)
C4_WordCode ==
  last.op = "wordcode" =>
    IF last.word.Idx < NumWords
    THEN /\ ~last.failed
         /\ last.word.Slice = Words[last.word.Idx]
         /\ last.word.Slice = recorded[last.word.Idx + 1]
         /\ pc = "ident"
         /\ Len(id.Identifier) >= Len(last.word.Slice)
         /\ SubSeq(id.Identifier, Len(id.Identifier) - Len(last.word.Slice) + 1,
                   Len(id.Identifier)) = last.word.Slice
    ELSE /\ last.failed
         /\ pc = "done"
         /\ result = NULL

C4_Witness ==
  /\ last.op = "wordcode"
  /\ ~last.failed
  /\ last.word.Idx = 1
  /\ NumWords = 2
  /\ last.word.Slice = Words[1]
  /\ last.word.Slice # <<>>

(* C5: NumWords stays within 0..MaxNumWords and Words keeps its MaxNumWords
   slots; a literal met when MaxNumWords words are recorded is not recorded:
   the call fails and returns null, NumWords still MaxNumWords. *)
C5_WordsBounded ==
  /\ NumWords \in 0..MaxNumWords
  /\ DOMAIN Words = 0..(MaxNumWords - 1)
  /\ (last.op = "literal" /\ last.word.Idx >= MaxNumWords) =>
       /\ last.failed
       /\ ~last.word.recorded
       /\ pc = "done"
       /\ result = NULL
       /\ NumWords = MaxNumWords
       /\ Len(recorded) = MaxNumWords

C5_Witness ==
  /\ last.op = "literal"
  /\ last.word.Idx = MaxNumWords
  /\ last.word.Slice # <<>>
  /\ last.failed
  /\ result = NULL
  /\ NumWords = MaxNumWords

\* the nodes below n, by at most depth child links
RECURSIVE Below(_, _)
Below(n, depth) ==
  IF depth = 0 \/ n \notin DOMAIN nodes
  THEN {}
  ELSE LET ch == Range(nodes[n].Children)
       IN ch \cup UNION {Below(c, depth - 1) : c \in ch}

\* the nodes the working stack and the substitution list hold
Roots == {NodeStack[i].Node : i \in 1..Len(NodeStack)} \cup Range(Substitutions)

GraphOf(roots) == roots \cup UNION {Below(n, Cardinality(DOMAIN nodes)) : n \in roots}

IsPrefix(s, t) == Len(s) <= Len(t) /\ SubSeq(t, 1, Len(s)) = s

(* C17: all through a call every node reachable from the working stack and the
   substitution list is a node of the arena, built with all its children, and
   is not below itself.  A step of the call leaves the substitution list alone
   or appends one node to it, the node the step has just completed, whose
   children existed before the step; a back-reference resolves to a node that
   existed before the step. *)
C17_SubstitutionsAcyclic ==
  /\ [](InCall =>
          \A n \in GraphOf(Roots) :
            /\ n \in DOMAIN nodes
            /\ n \notin Below(n, Cardinality(DOMAIN nodes)))
  /\ [][(InCall /\ InCall') =>
          /\ IsPrefix(Substitutions, Substitutions')
          /\ Len(Substitutions') <= Len(Substitutions) + 1
          /\ Len(Substitutions') = Len(Substitutions) + 1 =>
               LET Nd == Substitutions'[Len(Substitutions')]
               IN /\ Nd = last'.Node
                  /\ Nd \notin DOMAIN nodes
                  /\ Nd \in DOMAIN nodes'
                  /\ Range(nodes'[Nd].Children) \subseteq DOMAIN nodes
          /\ BackReferenced =>
               \A j \in 1..Len(last'.refs) :
                 last'.refs[j].Node # NULL => last'.refs[j].Node \in DOMAIN nodes]_vars

\* a function type whose two children are one and the same substituted node,
\* itself the latest entry of the substitution list
C17_Witness ==
  /\ InCall
  /\ Len(Substitutions) >= 2
  /\ \E i \in 1..Len(NodeStack) :
       LET n == NodeStack[i].Node
       IN /\ nodes[n].Kind = "Function"
          /\ nodes[n].Children = <<Substitutions[1], Substitutions[1]>>
          /\ n = Substitutions[Len(Substitutions)]

====
